---- MODULE Spec2Model ----
(***************************************************************************)
(* jkjs.util: the sorted-array difference getRemaining / getRemainingIter  *)
(* and the order check ensureSorted / requireSorted (src/jkjs/util.js).    *)
(*                                                                         *)
(* JavaScript arrays are objects: a variable holds a reference.  The heap  *)
(* is a sequence of arrays and a reference is an index into it, so that    *)
(* the in-place sort and the identity of a returned array are visible.     *)
(* A caller runs a short script of calls; every call runs synchronously    *)
(* to completion before the next one is entered.                           *)
(***************************************************************************)
EXTENDS Integers, Sequences, FiniteSets

VARIABLES
  heap,     \* heap[r]: contents of the array with reference r
  script,   \* the calls the caller has still to make
  pc,       \* position inside the running call, "idle" between calls
  ixs,      \* argument ixs of the running call (a reference)
  minus,    \* argument minus of the running call (a reference)
  p,        \* var p
  q,        \* var q
  res,      \* var res of getRemaining (a reference, 0 before it is allocated)
  ret,      \* value returned by the last getRemaining that returned (0: none)
  cbArgs,   \* values passed to cb by the last getRemainingIter, in call order
  warns,    \* number of console.warn calls so far
  iters,    \* iterations of the while loop in the running call
  ixs0,     \* contents of ixs when the running call was entered
  minus0,   \* contents of minus when the running call was entered
  warns0,   \* warns when the running call was entered
  log       \* one record per completed call, in order of completion

vars == <<heap, script, pc, ixs, minus, p, q, res, ret, cbArgs, warns, iters,
          ixs0, minus0, warns0, log>>

\* Bounds of the model: array lengths and the largest element value.
MaxLen == 2
MaxVal == 1

\* Element values; negative numbers included.
Vals == (0 - 1)..MaxVal

\* Number.NEGATIVE_INFINITY: compares below every element.
NEGATIVE_INFINITY == 0 - 2

Arrays == UNION {[1..n -> Vals] : n \in 0..MaxLen}

----------------------------------------------------------------------------
\* Helpers of the statements (not program code).

IsSorted(s) == \A i \in 1..(Len(s) - 1) : s[i] <= s[i + 1]

Count(s, v) == Cardinality({i \in 1..Len(s) : s[i] = v})

Elems(s) == {s[i] : i \in 1..Len(s)}

SameElements(s, t) == Len(s) = Len(t) /\ \A v \in Elems(s) \cup Elems(t) : Count(s, v) = Count(t, v)

Max(a, b) == IF a >= b THEN a ELSE b

----------------------------------------------------------------------------
\* d3.ascending as the comparator of Array.prototype.sort: the elements in
\* non-decreasing numeric order (insertion into a sorted prefix).

RECURSIVE InsertAsc(_, _)
InsertAsc(s, v) ==
  IF s = <<>> THEN <<v>>
  ELSE IF v < Head(s) THEN <<v>> \o s
  ELSE <<Head(s)>> \o InsertAsc(Tail(s), v)

RECURSIVE SortAscending(_)
SortAscending(arr) ==
  IF arr = <<>> THEN <<>>
  ELSE InsertAsc(SortAscending(SubSeq(arr, 1, Len(arr) - 1)), arr[Len(arr)])

\* The forEach of requireSorted: the array `swapped` after elements i..length.
RECURSIVE Swapped(_, _, _, _, _)
Swapped(arr, i, prev, run, swapped) ==
  IF i > Len(arr) THEN swapped
  ELSE IF arr[i] < prev
       THEN Swapped(arr, i + 1, arr[i], TRUE,
                    (IF run THEN swapped ELSE Append(swapped, prev)) \o <<arr[i]>>)
       ELSE Swapped(arr, i + 1, arr[i], FALSE, swapped)

\* requireSorted without arr.sort(d3.ascending).
RequireSortedNoSort(arr) ==
  [arr |-> arr, warn |-> IF Swapped(arr, 1, NEGATIVE_INFINITY, FALSE, <<>>) # <<>> THEN 2 ELSE 1]

\* requireSorted(arr): the array afterwards and the console.warn calls made.
RequireSorted(arr) ==
  IF Swapped(arr, 1, NEGATIVE_INFINITY, FALSE, <<>>) # <<>>
  THEN [arr |-> SortAscending(arr), warn |-> 2]
  ELSE [arr |-> arr, warn |-> 1]

\* The scan of ensureSorted: some element i..length is below its predecessor.
RECURSIVE Disordered(_, _, _)
Disordered(arr, i, prev) ==
  IF i > Len(arr) THEN FALSE
  ELSE IF arr[i] < prev THEN TRUE
  ELSE Disordered(arr, i + 1, arr[i])

\* ensureSorted entering requireSorted without the scan.
EnsureSortedAlwaysSort(arr) ==
  IF Len(arr) = 0 THEN [arr |-> arr, warn |-> 0]
  ELSE RequireSorted(arr)

\* ensureSorted(arr): the array afterwards and the console.warn calls made.
EnsureSorted(arr) ==
  IF Len(arr) = 0 THEN [arr |-> arr, warn |-> 0]
  ELSE IF Disordered(arr, 1, NEGATIVE_INFINITY) THEN RequireSorted(arr)
  ELSE [arr |-> arr, warn |-> 0]

----------------------------------------------------------------------------
\* The caller.

\* A call of the script: fn(a, b); a = 0 passes the array the previous
\* getRemaining returned.
Call(fn, a, b) == [fn |-> fn, a |-> a, b |-> b]

Ref(a) == IF a = 0 THEN ret ELSE a

\* The record of a completed call.
Done(fn, i0, m0, i1, m1, out, w, rr, ir, mr, n) ==
  [fn |-> fn, ixs0 |-> i0, minus0 |-> m0, ixs1 |-> i1, minus1 |-> m1,
   out |-> out, warn |-> w, ret |-> rr, ixs |-> ir, minus |-> mr, iters |-> n]

InitWith(h, s) ==
  /\ heap = h
  /\ script = s
  /\ pc = "idle"
  /\ ixs = 0 /\ minus = 0 /\ p = 0 /\ q = 0 /\ res = 0 /\ ret = 0
  /\ cbArgs = <<>>
  /\ warns = 0 /\ iters = 0
  /\ ixs0 = <<>> /\ minus0 = <<>> /\ warns0 = 0
  /\ log = <<>>

\* One call on two arrays of the caller.
Init ==
  \E A \in Arrays, B \in Arrays :
    \E fn \in {"ensureSorted", "getRemaining", "getRemainingIter"} :
      InitWith(<<A, B>>, <<Call(fn, 1, 2)>>)

----------------------------------------------------------------------------
\* ensureSorted(arr) called by the caller.

ES_Call ==
  /\ pc = "idle"
  /\ script # <<>>
  /\ Head(script).fn = "ensureSorted"
  /\ LET a == Ref(Head(script).a)
         r == EnsureSorted(heap[a])
     IN /\ heap' = [heap EXCEPT ![a] = r.arr]
        /\ warns' = warns + r.warn
        /\ log' = Append(log, Done("ensureSorted", heap[a], <<>>, r.arr, <<>>,
                                   <<>>, r.warn, 0, a, 0, 0))
  /\ script' = Tail(script)
  /\ UNCHANGED <<pc, ixs, minus, p, q, res, ret, cbArgs, iters, ixs0, minus0, warns0>>

----------------------------------------------------------------------------
\* getRemaining(ixs, minus)

\* if(!ixs.length || !minus.length) return ixs;
GR_ReturnIxs ==
  /\ pc = "idle"
  /\ script # <<>>
  /\ Head(script).fn = "getRemaining"
  /\ LET a == Ref(Head(script).a)
         b == Ref(Head(script).b)
     IN /\ Len(heap[a]) = 0 \/ Len(heap[b]) = 0
        /\ ixs' = a
        /\ minus' = b
        /\ ixs0' = heap[a]
        /\ minus0' = heap[b]
        /\ ret' = a
        /\ log' = Append(log, Done("getRemaining", heap[a], heap[b], heap[a], heap[b],
                                   heap[a], 0, a, a, b, 0))
  /\ warns0' = warns
  /\ iters' = 0
  /\ script' = Tail(script)
  /\ UNCHANGED <<heap, pc, p, q, res, cbArgs, warns>>

\* Both arrays have elements: on to that.ensureSorted(ixs).
GR_Enter ==
  /\ pc = "idle"
  /\ script # <<>>
  /\ Head(script).fn = "getRemaining"
  /\ LET a == Ref(Head(script).a)
         b == Ref(Head(script).b)
     IN /\ Len(heap[a]) # 0 /\ Len(heap[b]) # 0
        /\ ixs' = a
        /\ minus' = b
        /\ ixs0' = heap[a]
        /\ minus0' = heap[b]
  /\ warns0' = warns
  /\ iters' = 0
  /\ script' = Tail(script)
  /\ pc' = "gr_ensure_ixs"
  /\ UNCHANGED <<heap, p, q, res, ret, cbArgs, warns, log>>

\* that.ensureSorted(ixs);
GR_EnsureIxs ==
  /\ pc = "gr_ensure_ixs"
  /\ LET r == EnsureSorted(heap[ixs])
     IN /\ heap' = [heap EXCEPT ![ixs] = r.arr]
        /\ warns' = warns + r.warn
        /\ log' = Append(log, Done("ensureSorted", heap[ixs], <<>>, r.arr, <<>>,
                                   <<>>, r.warn, 0, ixs, 0, 0))
  /\ pc' = "gr_ensure_minus"
  /\ UNCHANGED <<script, ixs, minus, p, q, res, ret, cbArgs, iters, ixs0, minus0, warns0>>

\* that.ensureSorted(minus); var p = 0; var q = 0; var res = [];
GR_EnsureMinus ==
  /\ pc = "gr_ensure_minus"
  /\ LET r == EnsureSorted(heap[minus])
     IN /\ heap' = Append([heap EXCEPT ![minus] = r.arr], <<>>)
        /\ warns' = warns + r.warn
        /\ log' = Append(log, Done("ensureSorted", heap[minus], <<>>, r.arr, <<>>,
                                   <<>>, r.warn, 0, minus, 0, 0))
  /\ p' = 0
  /\ q' = 0
  /\ res' = Len(heap) + 1
  /\ pc' = "gr_while"
  /\ UNCHANGED <<script, ixs, minus, ret, cbArgs, iters, ixs0, minus0, warns0>>

\* GR_While with the equal case consuming one element of each array.
GR_WhileOneForOne ==
  /\ pc = "gr_while"
  /\ p < Len(heap[ixs]) /\ q < Len(heap[minus])
  /\ LET cur == heap[ixs][p + 1]
         m == heap[minus][q + 1]
     IN IF cur < m
        THEN /\ heap' = [heap EXCEPT ![res] = Append(@, cur)]
             /\ p' = p + 1
             /\ q' = q
        ELSE IF cur > m
        THEN /\ q' = q + 1
             /\ p' = p
             /\ heap' = heap
        ELSE /\ p' = p + 1
             /\ q' = q + 1
             /\ heap' = heap
  /\ iters' = iters + 1
  /\ UNCHANGED <<script, pc, ixs, minus, res, ret, cbArgs, warns, ixs0, minus0, warns0, log>>

\* GR_While with the equal case advancing q in place of p.
GR_WhileAdvanceQ ==
  /\ pc = "gr_while"
  /\ p < Len(heap[ixs]) /\ q < Len(heap[minus])
  /\ LET cur == heap[ixs][p + 1]
         m == heap[minus][q + 1]
     IN IF cur < m
        THEN /\ heap' = [heap EXCEPT ![res] = Append(@, cur)]
             /\ p' = p + 1
             /\ q' = q
        ELSE IF cur > m
        THEN /\ q' = q + 1
             /\ p' = p
             /\ heap' = heap
        ELSE /\ p' = p
             /\ q' = q + 1
             /\ heap' = heap
  /\ iters' = iters + 1
  /\ UNCHANGED <<script, pc, ixs, minus, res, ret, cbArgs, warns, ixs0, minus0, warns0, log>>

\* GR_While with the equal case advancing neither pointer.
GR_WhileStuck ==
  /\ pc = "gr_while"
  /\ p < Len(heap[ixs]) /\ q < Len(heap[minus])
  /\ LET cur == heap[ixs][p + 1]
         m == heap[minus][q + 1]
     IN IF cur < m
        THEN /\ heap' = [heap EXCEPT ![res] = Append(@, cur)]
             /\ p' = p + 1
             /\ q' = q
        ELSE IF cur > m
        THEN /\ q' = q + 1
             /\ p' = p
             /\ heap' = heap
        ELSE /\ p' = p
             /\ q' = q
             /\ heap' = heap
  /\ iters' = iters + 1
  /\ UNCHANGED <<script, pc, ixs, minus, res, ret, cbArgs, warns, ixs0, minus0, warns0, log>>

\* One iteration of while(p < ixs.length && q < minus.length).
GR_While ==
  /\ pc = "gr_while"
  /\ p < Len(heap[ixs]) /\ q < Len(heap[minus])
  /\ LET cur == heap[ixs][p + 1]
         m == heap[minus][q + 1]
     IN IF cur < m
        THEN /\ heap' = [heap EXCEPT ![res] = Append(@, cur)]
             /\ p' = p + 1
             /\ q' = q
        ELSE IF cur > m
        THEN /\ q' = q + 1
             /\ p' = p
             /\ heap' = heap
        ELSE /\ p' = p + 1
             /\ q' = q
             /\ heap' = heap
  /\ iters' = iters + 1
  /\ UNCHANGED <<script, pc, ixs, minus, res, ret, cbArgs, warns, ixs0, minus0, warns0, log>>

\* The while condition is false: on to the for loop.
GR_WhileExit ==
  /\ pc = "gr_while"
  /\ ~(p < Len(heap[ixs]) /\ q < Len(heap[minus]))
  /\ pc' = "gr_for"
  /\ UNCHANGED <<heap, script, ixs, minus, p, q, res, ret, cbArgs, warns, iters,
                 ixs0, minus0, warns0, log>>

\* One iteration of for(;p < ixs.length;p += 1) res.push(ixs[p]).
GR_For ==
  /\ pc = "gr_for"
  /\ p < Len(heap[ixs])
  /\ heap' = [heap EXCEPT ![res] = Append(@, heap[ixs][p + 1])]
  /\ p' = p + 1
  /\ UNCHANGED <<script, pc, ixs, minus, q, res, ret, cbArgs, warns, iters,
                 ixs0, minus0, warns0, log>>

\* return res;
GR_Return ==
  /\ pc = "gr_for"
  /\ ~(p < Len(heap[ixs]))
  /\ ret' = res
  /\ log' = Append(log, Done("getRemaining", ixs0, minus0, heap[ixs], heap[minus],
                             heap[res], warns - warns0, res, ixs, minus, iters))
  /\ pc' = "idle"
  /\ UNCHANGED <<heap, script, ixs, minus, p, q, res, cbArgs, warns, iters,
                 ixs0, minus0, warns0>>

----------------------------------------------------------------------------
\* getRemainingIter(ixs, minus, cb)

\* if(!ixs.length || !minus.length) { ixs.forEach(cb); return; }
GRI_ForEach ==
  /\ pc = "idle"
  /\ script # <<>>
  /\ Head(script).fn = "getRemainingIter"
  /\ LET a == Ref(Head(script).a)
         b == Ref(Head(script).b)
     IN /\ Len(heap[a]) = 0 \/ Len(heap[b]) = 0
        /\ ixs' = a
        /\ minus' = b
        /\ ixs0' = heap[a]
        /\ minus0' = heap[b]
        /\ cbArgs' = heap[a]
        /\ log' = Append(log, Done("getRemainingIter", heap[a], heap[b], heap[a], heap[b],
                                   heap[a], 0, 0, a, b, 0))
  /\ warns0' = warns
  /\ iters' = 0
  /\ script' = Tail(script)
  /\ UNCHANGED <<heap, pc, p, q, res, ret, warns>>

\* Both arrays have elements: on to that.ensureSorted(ixs).
GRI_Enter ==
  /\ pc = "idle"
  /\ script # <<>>
  /\ Head(script).fn = "getRemainingIter"
  /\ LET a == Ref(Head(script).a)
         b == Ref(Head(script).b)
     IN /\ Len(heap[a]) # 0 /\ Len(heap[b]) # 0
        /\ ixs' = a
        /\ minus' = b
        /\ ixs0' = heap[a]
        /\ minus0' = heap[b]
  /\ cbArgs' = <<>>
  /\ warns0' = warns
  /\ iters' = 0
  /\ script' = Tail(script)
  /\ pc' = "gri_ensure_ixs"
  /\ UNCHANGED <<heap, p, q, res, ret, warns, log>>

\* GRI_EnsureIxs with the call of ensureSorted(ixs) left out.
GRI_EnsureIxsSkipped ==
  /\ pc = "gri_ensure_ixs"
  /\ pc' = "gri_ensure_minus"
  /\ UNCHANGED <<heap, script, ixs, minus, p, q, res, ret, cbArgs, warns, iters,
                 ixs0, minus0, warns0, log>>

\* that.ensureSorted(ixs);
GRI_EnsureIxs ==
  /\ pc = "gri_ensure_ixs"
  /\ LET r == EnsureSorted(heap[ixs])
     IN /\ heap' = [heap EXCEPT ![ixs] = r.arr]
        /\ warns' = warns + r.warn
        /\ log' = Append(log, Done("ensureSorted", heap[ixs], <<>>, r.arr, <<>>,
                                   <<>>, r.warn, 0, ixs, 0, 0))
  /\ pc' = "gri_ensure_minus"
  /\ UNCHANGED <<script, ixs, minus, p, q, res, ret, cbArgs, iters, ixs0, minus0, warns0>>

\* that.ensureSorted(minus); var p = 0; var q = 0;
GRI_EnsureMinus ==
  /\ pc = "gri_ensure_minus"
  /\ LET r == EnsureSorted(heap[minus])
     IN /\ heap' = [heap EXCEPT ![minus] = r.arr]
        /\ warns' = warns + r.warn
        /\ log' = Append(log, Done("ensureSorted", heap[minus], <<>>, r.arr, <<>>,
                                   <<>>, r.warn, 0, minus, 0, 0))
  /\ p' = 0
  /\ q' = 0
  /\ pc' = "gri_while"
  /\ UNCHANGED <<script, ixs, minus, res, ret, cbArgs, iters, ixs0, minus0, warns0>>

\* GRI_While with the equal case passing cur to cb as well.
GRI_WhileEmitEqual ==
  /\ pc = "gri_while"
  /\ p < Len(heap[ixs]) /\ q < Len(heap[minus])
  /\ LET cur == heap[ixs][p + 1]
         m == heap[minus][q + 1]
     IN IF cur <= m
        THEN /\ cbArgs' = Append(cbArgs, cur)
             /\ p' = p + 1
             /\ q' = q
        ELSE /\ q' = q + 1
             /\ p' = p
             /\ cbArgs' = cbArgs
  /\ iters' = iters + 1
  /\ UNCHANGED <<heap, script, pc, ixs, minus, res, ret, warns, ixs0, minus0, warns0, log>>

\* One iteration of while(p < ixs.length && q < minus.length).
GRI_While ==
  /\ pc = "gri_while"
  /\ p < Len(heap[ixs]) /\ q < Len(heap[minus])
  /\ LET cur == heap[ixs][p + 1]
         m == heap[minus][q + 1]
     IN IF cur < m
        THEN /\ cbArgs' = Append(cbArgs, cur)
             /\ p' = p + 1
             /\ q' = q
        ELSE IF cur > m
        THEN /\ q' = q + 1
             /\ p' = p
             /\ cbArgs' = cbArgs
        ELSE /\ p' = p + 1
             /\ q' = q
             /\ cbArgs' = cbArgs
  /\ iters' = iters + 1
  /\ UNCHANGED <<heap, script, pc, ixs, minus, res, ret, warns, ixs0, minus0, warns0, log>>

\* The while condition is false: on to the for loop.
GRI_WhileExit ==
  /\ pc = "gri_while"
  /\ ~(p < Len(heap[ixs]) /\ q < Len(heap[minus]))
  /\ pc' = "gri_for"
  /\ UNCHANGED <<heap, script, ixs, minus, p, q, res, ret, cbArgs, warns, iters,
                 ixs0, minus0, warns0, log>>

\* One iteration of for(;p < ixs.length;p += 1) cb(ixs[p]).
GRI_For ==
  /\ pc = "gri_for"
  /\ p < Len(heap[ixs])
  /\ cbArgs' = Append(cbArgs, heap[ixs][p + 1])
  /\ p' = p + 1
  /\ UNCHANGED <<heap, script, pc, ixs, minus, q, res, ret, warns, iters,
                 ixs0, minus0, warns0, log>>

\* The function ends (it returns undefined).
GRI_Return ==
  /\ pc = "gri_for"
  /\ ~(p < Len(heap[ixs]))
  /\ log' = Append(log, Done("getRemainingIter", ixs0, minus0, heap[ixs], heap[minus],
                             cbArgs, warns - warns0, 0, ixs, minus, iters))
  /\ pc' = "idle"
  /\ UNCHANGED <<heap, script, ixs, minus, p, q, res, ret, cbArgs, warns, iters,
                 ixs0, minus0, warns0>>

----------------------------------------------------------------------------
Next ==
  \/ ES_Call
  \/ GR_ReturnIxs
  \/ GR_Enter
  \/ GR_EnsureIxs
  \/ GR_EnsureMinus
  \/ GR_While
  \/ GR_WhileExit
  \/ GR_For
  \/ GR_Return
  \/ GRI_ForEach
  \/ GRI_Enter
  \/ GRI_EnsureIxs
  \/ GRI_EnsureMinus
  \/ GRI_While
  \/ GRI_WhileExit
  \/ GRI_For
  \/ GRI_Return

Spec == Init /\ [][Next]_vars

\* A call runs synchronously to its end: a step that is possible is taken.
FairSpec == Spec /\ WF_vars(Next)

\* The caller holds two copies of each array and makes several calls in a row.
Scripts ==
  { <<Call("getRemaining", 1, 2), Call("getRemainingIter", 3, 4)>>,
    <<Call("getRemaining", 1, 2), Call("getRemaining", 0, 2)>>,
    <<Call("ensureSorted", 3, 0), Call("ensureSorted", 4, 0),
      Call("getRemaining", 3, 4), Call("getRemaining", 1, 2)>> }

SeqInit ==
  \E A \in Arrays, B \in Arrays :
    \E s \in Scripts : InitWith(<<A, B, A, B>>, s)

SeqSpec == SeqInit /\ [][Next]_vars

----------------------------------------------------------------------------
\* Statements about the completed calls.

Calls(fn) == {i \in DOMAIN log : log[i].fn = fn}

SortedInputs(c) == IsSorted(c.ixs0) /\ IsSorted(c.minus0)

MergePcs == {"gr_while", "gri_while"}

LoopPcs == {"gr_while", "gr_for", "gri_while", "gri_for"}

Terminated == pc = "idle" /\ script = <<>>

\* C1 as stated: for ascending inputs every element of minus cancels at most
\* one equal element of ixs, so a value occurring k times in ixs and j times
\* in minus occurs max(k - j, 0) times in the array getRemaining returns.
C1_OneForOne ==
  \A i \in Calls("getRemaining") :
    SortedInputs(log[i]) =>
      \A v \in Vals :
        Count(log[i].out, v) = Max(Count(log[i].ixs0, v) - Count(log[i].minus0, v), 0)

\* C1 amended: for ascending inputs the array getRemaining returns is
\* ascending, and a value occurring k times in ixs occurs k times in it when
\* the value does not occur in minus and 0 times when it occurs in minus.
C1_AllOccurrencesRemoved ==
  \A i \in Calls("getRemaining") :
    SortedInputs(log[i]) =>
      /\ IsSorted(log[i].out)
      /\ \A v \in Vals :
           Count(log[i].out, v) =
             IF Count(log[i].minus0, v) = 0 THEN Count(log[i].ixs0, v) ELSE 0

\* A value twice in ixs and once in minus: both occurrences are gone.
C1_Witness ==
  \E i \in Calls("getRemaining") :
    /\ SortedInputs(log[i])
    /\ \E v \in Vals :
         /\ Count(log[i].ixs0, v) = 2
         /\ Count(log[i].minus0, v) = 1
         /\ Count(log[i].out, v) = 0

\* C2: the values getRemainingIter passes to cb, in call order, are the array
\* getRemaining returns on inputs with the same contents (any order, empty
\* ones included); so cb is called once per element of that array.
C2_StreamEqualsBatch ==
  \A i \in Calls("getRemaining") :
    \A j \in Calls("getRemainingIter") :
      (log[i].ixs0 = log[j].ixs0 /\ log[i].minus0 = log[j].minus0) =>
        log[i].out = log[j].out

\* Both forms have run on the same disordered ixs and delivered something
\* after a removal.
C2_Witness ==
  \E i \in Calls("getRemaining") :
    \E j \in Calls("getRemainingIter") :
      /\ log[i].ixs0 = log[j].ixs0
      /\ log[i].minus0 = log[j].minus0
      /\ ~IsSorted(log[j].ixs0)
      /\ log[j].out # <<>>
      /\ Len(log[j].out) < Len(log[j].ixs0)

\* C3: after ensureSorted on an array that is not non-decreasing the array is
\* non-decreasing and has the same elements with the same multiplicities and
\* the same length.
C3_DisorderRepaired ==
  \A i \in Calls("ensureSorted") :
    ~IsSorted(log[i].ixs0) =>
      /\ IsSorted(log[i].ixs1)
      /\ SameElements(log[i].ixs0, log[i].ixs1)
      /\ Len(log[i].ixs1) = Len(log[i].ixs0)

\* ensureSorted has returned from a disordered array holding a negative number.
C3_Witness ==
  \E i \in Calls("ensureSorted") :
    /\ ~IsSorted(log[i].ixs0)
    /\ \E k \in 1..Len(log[i].ixs0) : log[i].ixs0[k] < 0
    /\ log[i].ixs1 # log[i].ixs0

\* C4: ensureSorted on a non-decreasing array (the empty one included) leaves
\* every element where it was and calls console.warn not once.
C4_SortedUntouched ==
  \A i \in Calls("ensureSorted") :
    IsSorted(log[i].ixs0) =>
      /\ log[i].ixs1 = log[i].ixs0
      /\ log[i].warn = 0

\* ensureSorted has returned from a non-decreasing array of several elements.
C4_Witness ==
  \E i \in Calls("ensureSorted") :
    /\ IsSorted(log[i].ixs0)
    /\ Len(log[i].ixs0) >= 2
    /\ log[i].warn = 0

\* C5: for ascending A and B, getRemaining(getRemaining(A, B), B) equals
\* getRemaining(A, B) element for element.
C5_Idempotent ==
  \A i \in Calls("getRemaining") :
    \A j \in Calls("getRemaining") :
      (/\ i < j
       /\ SortedInputs(log[i])
       /\ log[j].ixs = log[i].ret
       /\ log[j].ixs0 = log[i].out
       /\ log[j].minus0 = log[i].minus0) =>
        log[j].out = log[i].out

\* The second call was made on the result of the first, which had removed
\* something and kept something.
C5_Witness ==
  \E i \in Calls("getRemaining") :
    \E j \in Calls("getRemaining") :
      /\ i < j
      /\ SortedInputs(log[i])
      /\ log[j].ixs = log[i].ret
      /\ log[j].ixs0 = log[i].out
      /\ log[j].minus0 = log[i].minus0
      /\ log[i].out # <<>>
      /\ log[i].out # log[i].ixs0

\* C6 as stated: the array getRemaining returns is never the object ixs nor
\* the object minus, whatever the inputs (empty ones included).
C6_ResultIsNewArray ==
  \A i \in Calls("getRemaining") :
    log[i].ret # log[i].ixs /\ log[i].ret # log[i].minus

\* C7 as stated: on arrays in any order (empty ones included) getRemaining
\* returns an ascending array, the one it returns on ascending copies of them.
C7_DisorderedLikeSorted ==
  \A i \in Calls("getRemaining") :
    \A j \in Calls("getRemaining") :
      (/\ IsSorted(log[j].ixs0) /\ SameElements(log[j].ixs0, log[i].ixs0)
       /\ IsSorted(log[j].minus0) /\ SameElements(log[j].minus0, log[i].minus0)) =>
        /\ IsSorted(log[i].out)
        /\ log[i].out = log[j].out

\* C8: whenever the loops of getRemaining or getRemainingIter run, ixs and
\* minus are non-decreasing, and the two calls completed last are the
\* ensureSorted of ixs and the ensureSorted of minus.
C8_SortedBeforeMerge ==
  pc \in LoopPcs =>
    /\ IsSorted(heap[ixs])
    /\ IsSorted(heap[minus])
    /\ Len(log) >= 2
    /\ log[Len(log) - 1].fn = "ensureSorted" /\ log[Len(log) - 1].ixs = ixs
    /\ log[Len(log)].fn = "ensureSorted" /\ log[Len(log)].ixs = minus

\* The while loop is comparing after both arrays had to be repaired.
C8_Witness ==
  /\ pc \in MergePcs
  /\ iters > 0
  /\ ~IsSorted(ixs0)
  /\ ~IsSorted(minus0)

\* C9: every call runs to its end; an iteration of the while loop adds exactly
\* one to p or to q and lowers neither, p stays within ixs.length and q within
\* minus.length, and the loop makes at most ixs.length + minus.length
\* iterations.
C9_RunsToCompletion ==
  /\ [](pc \in LoopPcs =>
          /\ p <= Len(heap[ixs])
          /\ q <= Len(heap[minus])
          /\ iters <= Len(heap[ixs]) + Len(heap[minus]))
  /\ [][(pc \in MergePcs /\ pc' = pc) =>
          /\ (p' = p + 1 /\ q' = q) \/ (p' = p /\ q' = q + 1)
          /\ iters' = iters + 1]_vars
  /\ <>[]Terminated

\* A call on disordered arrays has ended after three iterations of the while loop.
C9_Witness ==
  /\ Terminated
  /\ \E i \in DOMAIN log :
       /\ log[i].iters >= 3
       /\ ~IsSorted(log[i].ixs0)

\* C10: for ascending inputs getRemaining returns ixs without the elements
\* whose value occurs in minus: the others stay, in order, as often as they
\* occur.
RECURSIVE Without(_, _)
Without(s, vs) ==
  IF s = <<>> THEN <<>>
  ELSE IF Head(s) \in vs THEN Without(Tail(s), vs)
  ELSE <<Head(s)>> \o Without(Tail(s), vs)

C10_FilterByMembership ==
  \A i \in Calls("getRemaining") :
    SortedInputs(log[i]) => log[i].out = Without(log[i].ixs0, Elems(log[i].minus0))

\* One element of minus has removed more than one element of ixs.
C10_Witness ==
  \E i \in Calls("getRemaining") :
    /\ SortedInputs(log[i])
    /\ Len(log[i].minus0) = 1
    /\ Len(log[i].out) + 2 <= Len(log[i].ixs0)

====
